---- MODULE Spec2Model ----
\* State-machine model of the list pipeline of the ePaper admin client:
\* useSearch (debounced substring filter), usePagination / PaginationWithText
\* (page window, summary, page-number strip) and the EpaperList loader.
EXTENDS Integers, Sequences, FiniteSets, TLC

VARIABLES
  data,            \* the record list handed to useSearch (epapers / userList)
  searchFields,    \* the searchFields prop of useSearch
  searchQuery,     \* useSearch: the visible query
  debouncedQuery,  \* useSearch: the query the filter uses
  timer,           \* useSearch: the pending setTimeout of the debounce effect
  sinceEdit,       \* time elapsed since the visible query last changed
  filterRan,       \* useSearch: the filter ran in the latest render of the hook
  currentPage,     \* usePagination: 1-based page
  itemsPerPage,    \* the itemsPerPage prop
  lastRequest,     \* target of the latest handlePageChange call (-1: none)
  backend,         \* the editions stored by the backend, as identifiers
  requests,        \* EpaperList: requests in flight, in order of dispatch
  loading,         \* EpaperList: loading
  error,           \* EpaperList: error
  route,           \* the route shown by the router
  toast,           \* the latest toast shown
  deletes,         \* number of deletes confirmed so far
  loadedTotal,     \* pagination.total of the load applied last (-1: none)
  loadsDispatched, \* number of loadEpapers calls so far
  shownLoad,       \* which loadEpapers call filled the visible list (0: none)
  selectedDate,    \* PublicLandingPage: selectedDate
  paramId,         \* EpaperView: the :id route parameter
  epaper,          \* the viewers' epaper state
  navAttempted,    \* PublicLandingPage: navAttempted
  mounted,         \* which instance of a viewer or form is mounted (0: none)
  navigations,     \* number of navigate("/404") calls so far
  order,           \* reorder workflow: the in-memory page order
  baseline,        \* reorder workflow: the order a cancel restores
  canonical,       \* reorder workflow: the order stored by the backend
  currentUser,     \* UserList: the signed-in user
  user,            \* UserRegister: the form fields
  isEditing,       \* UserRegister: isEditing
  errors,          \* UserRegister: errors
  storedToken,     \* auth.api: localStorage[TOKEN_KEY]
  authHeader,      \* auth.api: the token handed to setAuthToken
  lastTokenCall    \* the latest call that stored or cleared the token

hookVars == <<searchFields, searchQuery, debouncedQuery, timer, sinceEdit,
              filterRan, itemsPerPage>>

loaderVars == <<backend, requests, loading, error, route, toast, deletes,
                loadedTotal, loadsDispatched, shownLoad>>

viewerVars == <<selectedDate, paramId, epaper, navAttempted, mounted, navigations>>

reorderVars == <<order, baseline, canonical>>

formVars == <<user, isEditing, errors>>

authVars == <<storedToken, authHeader, lastTokenCall>>

screenVars == <<viewerVars, reorderVars, currentUser, formVars, authVars>>

vars == <<data, currentPage, lastRequest, hookVars, loaderVars, screenVars>>

----------------------------------------------------------------------------
\* Bounds of the model.
MaxLen == 2           \* longest record list of the useSearch specification
MaxRecords == 12      \* longest record list of the list-screen specification
MaxItemsPerPage == 2  \* page sizes 1..MaxItemsPerPage besides the screens' 10
TimeStep == 100       \* granularity of elapsing time
MaxBackend == 12      \* most editions the backend stores
MaxInFlight == 2      \* most requests in flight at once
MaxDeletes == 2       \* most deletes confirmed in one behaviour
MaxDeleteRows == 2    \* rows of the visible page whose delete button is used
MaxShortBackend == 2  \* editions stored when the short list screen mounts

\* Program constants.
debounceDelay == 300
screenItemsPerPage == 10
maxVisiblePages == 5
defaultPage == 1
defaultLimit == 10
Ellipsis == -1

NoError == "null"
NoToast == "none"

Min(a, b) == IF a <= b THEN a ELSE b
Max(a, b) == IF a >= b THEN a ELSE b

----------------------------------------------------------------------------
\* Strings are sequences of one-character strings.
toLowerCaseChar(c) ==
  CASE c = "A" -> "a"
    [] c = "B" -> "b"
    [] c = "S" -> "s"
    [] OTHER -> c

toLowerCase(s) == [i \in 1..Len(s) |-> toLowerCaseChar(s[i])]

\* String.prototype.includes
includes(s, q) ==
  \E i \in 0..(Len(s) - Len(q)) : SubSeq(s, i + 1, i + Len(q)) = q

RECURSIVE trimStart(_)
trimStart(s) ==
  IF s # <<>> /\ Head(s) = " " THEN trimStart(Tail(s)) ELSE s

RECURSIVE trimEnd(_)
trimEnd(s) ==
  IF s # <<>> /\ s[Len(s)] = " " THEN trimEnd(SubSeq(s, 1, Len(s) - 1)) ELSE s

\* String.prototype.trim
trim(s) == trimEnd(trimStart(s))

\* String(n) for the one-digit numbers of the model.
numberToString(n) ==
  CASE n = 0 -> <<"0">>
    [] n = 1 -> <<"1">>
    [] n = 2 -> <<"2">>
    [] OTHER -> <<"9">>

----------------------------------------------------------------------------
\* Records.  A field value is a string or a number (typeof value).
StringValue(s) == [type |-> "string", str |-> s, num |-> 0]
NumberValue(n) == [type |-> "number", str |-> <<>>, num |-> n]

FieldNames == {"name", "status", "totalPages"}

\* Three kinds of record content, repeated along the identifiers.
ItemName(k) ==
  CASE k = 1 -> <<"A", "b">>
    [] k = 2 -> <<"b", " ">>
    [] OTHER -> <<>>

ItemStatus(k) ==
  CASE k = 1 -> <<"a">>
    [] k = 2 -> <<"B">>
    [] OTHER -> <<"1">>

Item(i) ==
  LET k == ((i - 1) % 3) + 1 IN
  [id |-> i,
   name |-> StringValue(ItemName(k)),
   status |-> StringValue(ItemStatus(k)),
   totalPages |-> NumberValue(IF k = 2 THEN 2 ELSE 1)]

\* The queries a user types.
Queries == { <<>>, <<" ">>, <<"a">>, <<"A", "b">>, <<"b", " ">>, <<"1">> }
ListQueries == { <<>>, <<"a">> }

\* Record lists: every list of up to MaxLen records over three records, and
\* the lists Item(1) .. Item(n).
RECURSIVE ListsUpTo(_)
ListsUpTo(n) ==
  IF n = 0 THEN { <<>> }
  ELSE ListsUpTo(n - 1) \cup
       { Append(l, Item(i)) : l \in { m \in ListsUpTo(n - 1) : Len(m) = n - 1 },
                              i \in 1..3 }

Prefix(n) == [i \in 1..n |-> Item(i)]

----------------------------------------------------------------------------
\* useSearch: the filter.
fieldMatchesCoerced(item, field, query) ==
  LET value == item[field] IN
  IF value.type = "string"
  THEN includes(toLowerCase(value.str), query)
  ELSE includes(numberToString(value.num), query)

fieldMatches(item, field, query) ==
  LET value == item[field] IN
  IF value.type = "string"
  THEN includes(toLowerCase(value.str), query)
  ELSE FALSE

isBlankUntrimmed(q) == q = <<>>

isBlank(q) == trim(q) = <<>>

filteredData(d, dq, fields) ==
  IF isBlank(dq) THEN d
  ELSE LET query == toLowerCase(dq)
           keep(item) == \E field \in fields : fieldMatches(item, field, query)
       IN SelectSeq(d, keep)

searchedItems == filteredData(data, debouncedQuery, searchFields)

----------------------------------------------------------------------------
\* usePagination.
ceilDiv(n, p) == (n + p - 1) \div p

totalPagesOf(len, p) == Max(1, ceilDiv(len, p))

currentItemsOfInclusive(d, p, page) ==
  SubSeq(d, (page - 1) * p + 1, Min(Len(d), page * p + 1))

currentItemsOf(d, p, page) ==
  SubSeq(d, (page - 1) * p + 1, Min(Len(d), page * p))

clampPageNone(len, p, prev) == prev

clampPageReset(len, p, prev) == 1

clampPage(len, p, prev) == Min(prev, totalPagesOf(len, p))

totalPages == totalPagesOf(Len(searchedItems), itemsPerPage)
currentItems == currentItemsOf(searchedItems, itemsPerPage, currentPage)

\* The state setter the screens hand to PaginationWithText as onPageChange.
setCurrentPage(page) == currentPage' = page

----------------------------------------------------------------------------
\* PaginationWithText.
startItemZeroBased(page, p, totalItems) == Min((page - 1) * p, totalItems)

startItem(page, p, totalItems) == Min((page - 1) * p + 1, totalItems)
endItem(page, p, totalItems) == Min(page * p, totalItems)

NoSummary == <<>>
summary(page, p, totalItems) ==
  IF totalItems = 0 THEN NoSummary
  ELSE <<startItem(page, p, totalItems), endItem(page, p, totalItems),
         totalItems>>

Range(a, b) == [i \in 1..(b - a + 1) |-> a + i - 1]

getPageNumbersShortTail(page, total) ==
  IF total <= maxVisiblePages THEN Range(1, total)
  ELSE IF page <= 3 THEN Range(1, 4) \o <<Ellipsis>> \o <<total>>
  ELSE IF page >= total - 2
       THEN <<1>> \o <<Ellipsis>> \o Range(total - 3, total - 1)
  ELSE <<1>> \o <<Ellipsis>> \o Range(page - 1, page + 1)
       \o <<Ellipsis>> \o <<total>>

getPageNumbersEarlyEllipsis(page, total) ==
  IF total < maxVisiblePages THEN Range(1, total)
  ELSE IF page <= 3 THEN Range(1, 4) \o <<Ellipsis>> \o <<total>>
  ELSE IF page >= total - 2
       THEN <<1>> \o <<Ellipsis>> \o Range(total - 3, total)
  ELSE <<1>> \o <<Ellipsis>> \o Range(page - 1, page + 1)
       \o <<Ellipsis>> \o <<total>>

getPageNumbers(page, total) ==
  IF total <= maxVisiblePages THEN Range(1, total)
  ELSE IF page <= 3 THEN Range(1, 4) \o <<Ellipsis>> \o <<total>>
  ELSE IF page >= total - 2
       THEN <<1>> \o <<Ellipsis>> \o Range(total - 3, total)
  ELSE <<1>> \o <<Ellipsis>> \o Range(page - 1, page + 1)
       \o <<Ellipsis>> \o <<total>>

pageInRangeLoose(page, total) == page >= 1 \/ page <= total

pageInRangeNoUpper(page, total) == page >= 1

pageInRange(page, total) == page >= 1 /\ page <= total

\* The render states of a list screen.
spinnerShown == loading

errorShown == error # NoError

noDataShown == ~loading /\ error = NoError /\ Len(data) = 0

noMatchShownAnyList ==
  ~loading /\ error = NoError /\ Len(searchedItems) = 0

noMatchShown ==
  ~loading /\ error = NoError /\ Len(data) > 0 /\ Len(searchedItems) = 0

\* The table, and PaginationWithText below it, are rendered together.
tableShown == ~loading /\ error = NoError /\ Len(currentItems) > 0

paginationShown == tableShown

PageTargets == 0..(totalPages + 1)

handlePageChange(page) ==
  /\ paginationShown
  /\ lastRequest' = page
  /\ IF pageInRange(page, totalPages)
     THEN setCurrentPage(page)
     ELSE UNCHANGED currentPage
  /\ UNCHANGED <<data, hookVars, loaderVars, screenVars>>

----------------------------------------------------------------------------
\* useSearch: the debounce effect.
NoTimer == [due |-> -1, query |-> <<>>]

\* The effect's cleanup clears the previous timer, then a new one is set.
armTimerKeep(prev, q) ==
  IF prev = NoTimer THEN [due |-> debounceDelay, query |-> q]
  ELSE [due |-> prev.due, query |-> q]

armTimer(prev, q) == [due |-> debounceDelay, query |-> q]

\* The callers write searchFields as an array literal in their render, so
\* every render hands useSearch an array it has not seen before.
freshSearchFields == TRUE

\* useMemo runs the filter again when a dependency differs from the one of
\* the previous render.
memoRecomputes(dataChanged, queryChanged, fieldsChanged) ==
  dataChanged \/ queryChanged \/ fieldsChanged

setSearchQuery(q) ==
  /\ IF q = searchQuery
     THEN UNCHANGED <<searchQuery, timer, sinceEdit, filterRan>>
     ELSE /\ searchQuery' = q
          /\ timer' = armTimer(timer, q)
          /\ sinceEdit' = 0
          /\ filterRan' = memoRecomputes(FALSE, FALSE, freshSearchFields)
  /\ UNCHANGED <<data, searchFields, debouncedQuery, currentPage,
                 itemsPerPage, lastRequest, loaderVars, screenVars>>

Elapse(d) ==
  /\ timer # NoTimer
  /\ timer.due > 0
  /\ timer' = [timer EXCEPT !.due = Max(0, @ - d)]
  /\ sinceEdit' = Min(debounceDelay, sinceEdit + d)
  /\ UNCHANGED <<data, searchFields, searchQuery, debouncedQuery, filterRan,
                 currentPage, itemsPerPage, lastRequest, loaderVars, screenVars>>

TimerFire ==
  /\ timer # NoTimer
  /\ timer.due = 0
  /\ debouncedQuery' = timer.query
  /\ timer' = NoTimer
  /\ filterRan' = IF timer.query = debouncedQuery THEN filterRan
                  ELSE memoRecomputes(FALSE, TRUE, freshSearchFields)
  /\ currentPage' =
       clampPage(Len(filteredData(data, timer.query, searchFields)),
                 itemsPerPage, currentPage)
  /\ UNCHANGED <<data, searchFields, searchQuery, sinceEdit, itemsPerPage,
                 lastRequest, loaderVars, screenVars>>

\* The list state is replaced wholesale (setEpapers / setUserList).
setData(list) ==
  /\ data' = list
  /\ filterRan' = memoRecomputes(TRUE, FALSE, freshSearchFields)
  /\ currentPage' =
       clampPage(Len(filteredData(list, debouncedQuery, searchFields)),
                 itemsPerPage, currentPage)
  /\ UNCHANGED <<searchFields, searchQuery, debouncedQuery, timer, sinceEdit,
                 itemsPerPage, lastRequest, loaderVars, screenVars>>

----------------------------------------------------------------------------
\* Specification of the list screen's search + pagination composition.
PageSizes == (1..MaxItemsPerPage) \cup {screenItemsPerPage}

InitHooks ==
  /\ searchQuery = <<>>
  /\ debouncedQuery = <<>>
  /\ timer = armTimer(NoTimer, <<>>)
  /\ sinceEdit = 0
  /\ filterRan = TRUE
  /\ currentPage = 1
  /\ lastRequest = -1

\* No loader activity: the list is handed in from outside.
InitIdleLoader ==
  /\ backend = <<>>
  /\ requests = <<>>
  /\ loading = FALSE
  /\ error = NoError
  /\ route = "list"
  /\ toast = NoToast
  /\ deletes = 0
  /\ loadedTotal = -1
  /\ loadsDispatched = 0
  /\ shownLoad = 0

\* The screens that are not mounted.
NoEpaper == [id |-> 0, pages |-> 0]
NoUser == [id |-> 0, role |-> "none"]
NoToken == "null"
TokenCall(op, token) == [op |-> op, token |-> token]
EmptyForm == [fullName |-> <<>>, email |-> <<>>, userName |-> <<>>,
              password |-> <<>>, passwordConfirm |-> <<>>]

InitIdleViewer ==
  /\ selectedDate = 0
  /\ paramId = 0
  /\ epaper = NoEpaper
  /\ navAttempted = FALSE
  /\ mounted = 0
  /\ navigations = 0

InitIdleReorder ==
  /\ order = <<>>
  /\ baseline = <<>>
  /\ canonical = <<>>

InitIdleForm ==
  /\ user = EmptyForm
  /\ isEditing = FALSE
  /\ errors = {}

InitIdleAuth ==
  /\ storedToken = NoToken
  /\ authHeader = NoToken
  /\ lastTokenCall = TokenCall("start", NoToken)

\* No list screen is mounted: no list, no search, no list request.
InitIdleList ==
  /\ data = <<>>
  /\ searchFields = {}
  /\ itemsPerPage = screenItemsPerPage
  /\ searchQuery = <<>>
  /\ debouncedQuery = <<>>
  /\ timer = NoTimer
  /\ sinceEdit = 0
  /\ filterRan = FALSE
  /\ lastRequest = -1
  /\ backend = <<>>
  /\ toast = NoToast
  /\ deletes = 0
  /\ loadedTotal = -1
  /\ loadsDispatched = 0
  /\ shownLoad = 0

InitIdleScreens ==
  /\ InitIdleViewer
  /\ InitIdleReorder
  /\ currentUser = NoUser
  /\ InitIdleForm
  /\ InitIdleAuth

Init ==
  /\ InitHooks
  /\ InitIdleLoader
  /\ InitIdleScreens
  /\ data = <<>>
  /\ searchFields = {"name", "status"}
  /\ itemsPerPage \in PageSizes

Next ==
  \/ \E q \in ListQueries : setSearchQuery(q)
  \/ Elapse(debounceDelay)
  \/ TimerFire
  \/ \E page \in PageTargets : handlePageChange(page)
  \/ \E n \in 0..MaxRecords : setData(Prefix(n))

Spec == Init /\ [][Next]_vars

\* Specification of useSearch alone, over every small list and field set.
InitSearch ==
  /\ InitHooks
  /\ InitIdleLoader
  /\ InitIdleScreens
  /\ data \in ListsUpTo(MaxLen)
  /\ searchFields \in SUBSET FieldNames
  /\ itemsPerPage = screenItemsPerPage

NextSearch ==
  \/ \E q \in Queries : setSearchQuery(q)
  \/ \E k \in 1..2 : Elapse(k * TimeStep)
  \/ TimerFire

SpecSearch == InitSearch /\ [][NextSearch]_vars

----------------------------------------------------------------------------
\* The backend behind GET /epapers and DELETE /epapers/:id.
BackendList(n) == [i \in 1..n |-> i]

\* One page of the stored editions, as asked for by page and limit.
backendPage(stored, page, limit) ==
  SubSeq(stored, (page - 1) * limit + 1, Min(Len(stored), page * limit))

ErrorResponses ==
  { [status |-> 401, message |-> "Unauthorized"],
    [status |-> 403, message |-> "Forbidden"],
    [status |-> 500, message |-> ""] }

NotFound == [status |-> 404, message |-> "ePaper not found"]

Request(kind, id, page, limit) ==
  [kind |-> kind, id |-> id, page |-> page, limit |-> limit,
   state |-> "sent", status |-> 0, message |-> "", rows |-> <<>>,
   total |-> 0, seq |-> 0]

RemoveAt(seq, i) == SubSeq(seq, 1, i - 1) \o SubSeq(seq, i + 1, Len(seq))

\* The backend answers a list request with the page asked for.
ServerAnswerLoad(i) ==
  /\ i \in 1..Len(requests)
  /\ requests[i].kind = "load"
  /\ requests[i].state = "sent"
  /\ requests' =
       [requests EXCEPT ![i] =
          [@ EXCEPT !.state = "ok", !.status = 200,
                    !.rows = backendPage(backend, requests[i].page,
                                         requests[i].limit),
                    !.total = Len(backend)]]
  /\ UNCHANGED <<data, currentPage, lastRequest, hookVars, screenVars,
                 backend, loading, error, route, toast, deletes, loadedTotal,
                 loadsDispatched, shownLoad>>

\* The backend deletes the edition, or reports that it does not exist.
ServerAnswerDelete(i) ==
  /\ i \in 1..Len(requests)
  /\ requests[i].kind = "delete"
  /\ requests[i].state = "sent"
  /\ LET id == requests[i].id
         found == \E k \in 1..Len(backend) : backend[k] = id
     IN IF found
        THEN /\ backend' = SelectSeq(backend, LAMBDA x : x # id)
             /\ requests' =
                  [requests EXCEPT ![i] =
                     [@ EXCEPT !.state = "ok", !.status = 200]]
        ELSE /\ backend' = backend
             /\ requests' =
                  [requests EXCEPT ![i] =
                     [@ EXCEPT !.state = "err", !.status = NotFound.status,
                               !.message = NotFound.message]]
  /\ UNCHANGED <<data, currentPage, lastRequest, hookVars, screenVars, loading,
                 error, route, toast, deletes, loadedTotal, loadsDispatched,
                 shownLoad>>

\* The backend rejects a request.
ServerReject(i, e) ==
  /\ i \in 1..Len(requests)
  /\ requests[i].state = "sent"
  /\ requests' =
       [requests EXCEPT ![i] =
          [@ EXCEPT !.state = "err", !.status = e.status,
                    !.message = e.message]]
  /\ UNCHANGED <<data, currentPage, lastRequest, hookVars, screenVars,
                 backend, loading, error, route, toast, deletes, loadedTotal,
                 loadsDispatched, shownLoad>>

----------------------------------------------------------------------------
\* epaper.api: getAllEpapers.
extractErrorMessage(response) ==
  IF response.message # "" THEN response.message
  ELSE "Request failed with status code"

\* The error getAllEpapers throws: a new Error, which has no response.
thrownByGetAllEpapers(response) ==
  [message |-> extractErrorMessage(response),
   responseStatus |-> 0, responseMessage |-> ""]

transformPaginatedResponse(response, requestedLimit) ==
  [epapers |-> [k \in 1..Len(response.rows) |-> Item(response.rows[k])],
   pagination |-> [page |-> 1, limit |-> requestedLimit,
                   total |-> response.total]]

\* getAllEpapers(page = 1, limit = 10, ...): the request it sends.
getAllEpapers == Request("load", 0, defaultPage, defaultLimit)

----------------------------------------------------------------------------
\* EpaperList: loadEpapers and handleDelete.
actingRole == "admin"
canEdit == actingRole \in {"superadmin", "admin", "staff"}

\* loadEpapers that sets its flags without sending the list request.
loadEpapersStartNoFetch(pendingRequests) ==
  /\ loading' = TRUE
  /\ error' = NoError
  /\ loadsDispatched' = loadsDispatched
  /\ requests' = pendingRequests

\* loadEpapers up to its await.
loadEpapersStart(pendingRequests) ==
  /\ loading' = TRUE
  /\ error' = NoError
  /\ loadsDispatched' = loadsDispatched + 1
  /\ requests' = Append(pendingRequests,
                        [getAllEpapers EXCEPT !.seq = loadsDispatched + 1])

\* loadEpapers after its await has settled.
ResolveLoad(i) ==
  /\ i \in 1..Len(requests)
  /\ requests[i].kind = "load"
  /\ requests[i].state # "sent"
  /\ requests' = RemoveAt(requests, i)
  /\ IF requests[i].state = "ok"
     THEN LET result ==
                transformPaginatedResponse(requests[i], requests[i].limit)
          IN /\ data' = result.epapers
             /\ loadedTotal' = result.pagination.total
             /\ shownLoad' = requests[i].seq
             /\ filterRan' = memoRecomputes(TRUE, FALSE, freshSearchFields)
             /\ currentPage' =
                  clampPage(Len(filteredData(result.epapers, debouncedQuery,
                                             searchFields)),
                            itemsPerPage, currentPage)
             /\ UNCHANGED <<error, route, toast>>
     ELSE LET err == thrownByGetAllEpapers(requests[i])
              status == err.responseStatus
              serverMsg == IF err.responseMessage # ""
                           THEN err.responseMessage
                           ELSE "Failed to load ePapers"
              userMessage ==
                IF status = 401 THEN "Session expired. Please log in again."
                ELSE IF status = 403
                     THEN "You don't have permission to view ePapers."
                ELSE serverMsg
          IN /\ route' = IF status = 401 THEN "/signin" ELSE route
             /\ error' = userMessage
             /\ toast' = userMessage
             /\ UNCHANGED <<data, loadedTotal, shownLoad, currentPage,
                            filterRan>>
  /\ loading' = FALSE
  /\ UNCHANGED <<lastRequest, searchFields, searchQuery, debouncedQuery,
                 timer, sinceEdit, itemsPerPage, screenVars, backend, deletes,
                 loadsDispatched>>

\* The delete button of a visible row; the user confirms or declines.
DeleteTargets ==
  { currentItems[k].id : k \in 1..Min(MaxDeleteRows, Len(currentItems)) }

handleDelete(id, confirmed) ==
  /\ tableShown
  /\ canEdit
  /\ id \in DeleteTargets
  /\ Len(requests) < MaxInFlight
  /\ deletes < MaxDeletes
  /\ IF confirmed
     THEN /\ requests' = Append(requests, Request("delete", id, 0, 0))
          /\ deletes' = deletes + 1
     ELSE UNCHANGED <<requests, deletes>>
  /\ UNCHANGED <<data, currentPage, lastRequest, hookVars, screenVars,
                 backend, loading, error, route, toast, loadedTotal,
                 loadsDispatched, shownLoad>>

\* handleDelete after its await has settled.
ResolveDelete(i) ==
  /\ i \in 1..Len(requests)
  /\ requests[i].kind = "delete"
  /\ requests[i].state # "sent"
  /\ IF requests[i].state = "ok"
     THEN /\ toast' = "ePaper deleted successfully"
          /\ loadEpapersStart(RemoveAt(requests, i))
     ELSE /\ toast' = IF requests[i].message # "" THEN requests[i].message
                      ELSE "Failed to delete ePaper"
          /\ requests' = RemoveAt(requests, i)
          /\ UNCHANGED <<loading, error, loadsDispatched>>
  /\ UNCHANGED <<data, currentPage, lastRequest, hookVars, screenVars,
                 backend, route, deletes, loadedTotal, shownLoad>>

----------------------------------------------------------------------------
\* Specification of the EpaperList screen with its loader: the state right
\* after the mount effect has called loadEpapers.
BackendSizes == {0, MaxShortBackend, defaultLimit, MaxBackend}

InitLoad ==
  /\ InitHooks
  /\ InitIdleScreens
  /\ data = <<>>
  /\ searchFields = {"name", "status"}
  /\ itemsPerPage = screenItemsPerPage
  /\ backend \in { BackendList(n) : n \in BackendSizes }
  /\ requests = <<[getAllEpapers EXCEPT !.seq = 1]>>
  /\ loading = TRUE
  /\ error = NoError
  /\ route = "list"
  /\ toast = NoToast
  /\ deletes = 0
  /\ loadedTotal = -1
  /\ loadsDispatched = 1
  /\ shownLoad = 0

NextLoad ==
  \/ \E i \in 1..MaxInFlight : ServerAnswerLoad(i)
  \/ \E i \in 1..MaxInFlight : ServerAnswerDelete(i)
  \/ \E i \in 1..MaxInFlight, e \in ErrorResponses : ServerReject(i, e)
  \/ \E i \in 1..MaxInFlight : ResolveLoad(i)
  \/ \E i \in 1..MaxInFlight : ResolveDelete(i)
  \/ \E id \in 1..MaxBackend, confirmed \in BOOLEAN :
       handleDelete(id, confirmed)
  \/ \E q \in ListQueries : setSearchQuery(q)
  \/ Elapse(debounceDelay)
  \/ TimerFire
  \/ \E page \in PageTargets : handlePageChange(page)

SpecLoad == InitLoad /\ [][NextLoad]_vars

\* The same screen mounted over a short backend list: every edition fits on
\* the first page, and repeated deletes can empty the list.
InitShortLoad ==
  /\ InitLoad
  /\ Len(backend) <= MaxShortBackend

SpecShortLoad == InitShortLoad /\ [][NextLoad]_vars

----------------------------------------------------------------------------
\* The viewers: PublicLandingPage (edition of a date) and EpaperView
\* (edition of an id). currentPage is 0-based here.
MaxPages == 3         \* pages of the longest edition
MaxDates == 4         \* dates (and edition ids) a viewer is pointed at
MaxNavigations == 2   \* most redirects to the not-found route in a behaviour

Dates == 1..MaxDates

\* What no viewer action touches.
offViewerVars == <<data, lastRequest, hookVars, backend, toast, deletes,
                   loadedTotal, loadsDispatched, shownLoad, reorderVars,
                   currentUser, formVars, authVars>>

\* What the backend stores: long, one-page and empty editions, then none.
editionOf(key) ==
  IF key = 1 THEN [id |-> 1, pages |-> MaxPages]
  ELSE IF key = 2 THEN [id |-> 2, pages |-> 1]
  ELSE IF key = 3 THEN [id |-> 3, pages |-> 0]
  ELSE NoEpaper

\* A viewer's request: `instance` is 1 while the component that sent it is
\* mounted; `navAttempted` is the value loadEpaper's closure holds.
ViewerRequest(kind, key, seen) ==
  [kind |-> kind, id |-> key, instance |-> 1, navAttempted |-> seen,
   state |-> "sent", edition |-> NoEpaper, message |-> ""]

\* transformEpaper: images is the backend's Images array, or [].
transformEpaper(edition) == [id |-> edition.id, pages |-> edition.pages]

\* The backend answers GET /epapers/by-date or GET /epapers/:id.
ServerAnswerViewer(i) ==
  /\ i \in 1..Len(requests)
  /\ requests[i].state = "sent"
  /\ requests' =
       [requests EXCEPT ![i] =
          IF editionOf(requests[i].id) # NoEpaper
          THEN [@ EXCEPT !.state = "ok",
                         !.edition = editionOf(requests[i].id)]
          ELSE [@ EXCEPT !.state = "err", !.message = NotFound.message]]
  /\ UNCHANGED <<offViewerVars, viewerVars, currentPage, loading, error,
                 route>>

\* The request fails on the way (network error, server error).
ServerRejectViewer(i) ==
  /\ i \in 1..Len(requests)
  /\ requests[i].state = "sent"
  /\ requests' =
       [requests EXCEPT ![i] =
          [@ EXCEPT !.state = "err", !.message = "Network Error"]]
  /\ UNCHANGED <<offViewerVars, viewerVars, currentPage, loading, error,
                 route>>

\* PublicLandingPage.
totalPagesOfEpaper == epaper.pages

\* The page with the viewer is rendered: not the spinner, not null.
viewerShown == mounted = 1 /\ route = "/" /\ ~loading /\ epaper # NoEpaper

\* loadEpaper up to its await; `seen` is navAttempted of the render whose
\* effect calls it.
loadEpaperStart(date, seen) ==
  /\ loading' = TRUE
  /\ navAttempted' = FALSE
  /\ requests' = Append(requests, ViewerRequest("byDate", date, seen))

\* The guard of the redirect in loadEpaper's catch.
mayNavigateIgnoringPath(seen, pathname) == ~seen

mayNavigate(seen, pathname) == ~seen /\ pathname # "/404"

\* The route "/" is opened: the component mounts and its effect loads the
\* edition of today's date.
MountLanding(today) ==
  /\ mounted = 0
  /\ route # "/"
  /\ Len(requests) < MaxInFlight
  /\ navigations + Len(requests) < MaxNavigations
  /\ route' = "/"
  /\ mounted' = 1
  /\ selectedDate' = today
  /\ epaper' = NoEpaper
  /\ currentPage' = 0
  /\ loadEpaperStart(today, FALSE)
  /\ UNCHANGED <<offViewerVars, error, paramId, navigations>>

\* The date input's onChange: a new Date object, so the effect runs again.
setSelectedDate(date) ==
  /\ viewerShown
  /\ Len(requests) < MaxInFlight
  /\ navigations + Len(requests) < MaxNavigations
  /\ selectedDate' = date
  /\ loadEpaperStart(date, navAttempted)
  /\ UNCHANGED <<offViewerVars, currentPage, error, route, paramId, epaper,
                 mounted, navigations>>

\* The page loadEpaper shows after a successful load.
pageAfterLoadKept(previous) == previous

pageAfterLoad(previous) == 0

\* loadEpaper after its await has settled. State setters of a component
\* that is no longer mounted do nothing; navigate() still acts.
ResolveByDate(i) ==
  /\ i \in 1..Len(requests)
  /\ requests[i].kind = "byDate"
  /\ requests[i].state # "sent"
  /\ requests' = RemoveAt(requests, i)
  /\ LET live == requests[i].instance = 1 /\ mounted = 1
         failed == requests[i].state = "err"
         redirect == failed /\ mayNavigate(requests[i].navAttempted, route)
     IN /\ epaper' = IF ~live THEN epaper
                     ELSE IF failed THEN NoEpaper
                     ELSE transformEpaper(requests[i].edition)
        /\ currentPage' = IF live /\ ~failed THEN pageAfterLoad(currentPage)
                          ELSE currentPage
        /\ navAttempted' = IF live /\ redirect THEN TRUE ELSE navAttempted
        /\ route' = IF redirect THEN "/404" ELSE route
        /\ navigations' = IF redirect THEN navigations + 1 ELSE navigations
        /\ loading' = IF live THEN FALSE ELSE loading
  /\ UNCHANGED <<offViewerVars, error, selectedDate, paramId, mounted>>

\* The user leaves the page through the browser (back, another link).
LeaveLanding ==
  /\ mounted = 1
  /\ route = "/"
  /\ route' = "/signin"
  /\ UNCHANGED <<offViewerVars, viewerVars, currentPage, requests, loading,
                 error>>

\* The router renders the new route: the component unmounts, its state is
\* dropped, and the requests it sent go on without it.
UnmountLanding ==
  /\ mounted = 1
  /\ route # "/"
  /\ mounted' = 0
  /\ selectedDate' = 0
  /\ epaper' = NoEpaper
  /\ currentPage' = 0
  /\ loading' = FALSE
  /\ navAttempted' = FALSE
  /\ requests' = [k \in 1..Len(requests) |->
                    [requests[k] EXCEPT !.instance = 0]]
  /\ UNCHANGED <<offViewerVars, error, route, paramId, navigations>>

\* Page navigation of the public viewer; a button acts only when rendered.
previousPage ==
  /\ viewerShown
  /\ currentPage > 0
  /\ currentPage' = Max(0, currentPage - 1)
  /\ UNCHANGED <<offViewerVars, viewerVars, requests, loading, error, route>>

nextPage ==
  /\ viewerShown
  /\ currentPage < totalPagesOfEpaper - 1
  /\ currentPage' = Min(totalPagesOfEpaper - 1, currentPage + 1)
  /\ UNCHANGED <<offViewerVars, viewerVars, requests, loading, error, route>>

\* The numbered quick-navigation buttons and the thumbnails.
jumpTo(idx) ==
  /\ viewerShown
  /\ idx \in 0..(totalPagesOfEpaper - 1)
  /\ currentPage' = idx
  /\ UNCHANGED <<offViewerVars, viewerVars, requests, loading, error, route>>

\* The main image is rendered.
imageRendered == viewerShown /\ totalPagesOfEpaper > 0

\* Specification of the public viewer: the state right after it mounted on
\* some date.
InitViewer ==
  /\ InitIdleList
  /\ InitIdleReorder
  /\ currentUser = NoUser
  /\ InitIdleForm
  /\ InitIdleAuth
  /\ error = NoError
  /\ currentPage = 0
  /\ paramId = 0
  /\ navigations = 0
  /\ route = "/"
  /\ mounted = 1
  /\ selectedDate \in Dates
  /\ epaper = NoEpaper
  /\ navAttempted = FALSE
  /\ loading = TRUE
  /\ requests = <<ViewerRequest("byDate", selectedDate, FALSE)>>

NextViewer ==
  \/ \E i \in 1..MaxInFlight : ServerAnswerViewer(i)
  \/ \E i \in 1..MaxInFlight : ServerRejectViewer(i)
  \/ \E i \in 1..MaxInFlight : ResolveByDate(i)
  \/ \E today \in Dates : MountLanding(today)
  \/ \E date \in Dates : setSelectedDate(date)
  \/ LeaveLanding
  \/ UnmountLanding
  \/ previousPage
  \/ nextPage
  \/ \E idx \in 0..(MaxPages - 1) : jumpTo(idx)

SpecViewer == InitViewer /\ [][NextViewer]_vars


----------------------------------------------------------------------------
\* EpaperView, the admin viewer of the edition named by the :id parameter.
epaperViewShown ==
  mounted = 1 /\ ~loading /\ error = NoError /\ epaper # NoEpaper

\* The route parameter changes while the component stays mounted: the
\* effect on [id] runs loadEpaper again, up to its await.
changeParamId(newId) ==
  /\ mounted = 1
  /\ newId # paramId
  /\ Len(requests) < MaxInFlight
  /\ paramId' = newId
  /\ loading' = TRUE
  /\ requests' = Append(requests, ViewerRequest("byId", newId, FALSE))
  /\ UNCHANGED <<offViewerVars, currentPage, error, route, selectedDate,
                 epaper, navAttempted, mounted, navigations>>

\* loadEpaper of EpaperView after its await has settled.
ResolveById(i) ==
  /\ i \in 1..Len(requests)
  /\ requests[i].kind = "byId"
  /\ requests[i].state # "sent"
  /\ requests' = RemoveAt(requests, i)
  /\ IF requests[i].state = "ok"
     THEN /\ epaper' = transformEpaper(requests[i].edition)
          /\ UNCHANGED error
     ELSE /\ error' = requests[i].message
          /\ UNCHANGED epaper
  /\ loading' = FALSE
  /\ UNCHANGED <<offViewerVars, currentPage, route, selectedDate, paramId,
                 navAttempted, mounted, navigations>>

\* The navigation bar is rendered for editions of more than one page.
viewPreviousPage ==
  /\ epaperViewShown
  /\ totalPagesOfEpaper > 1
  /\ currentPage # 0
  /\ currentPage' = Max(0, currentPage - 1)
  /\ UNCHANGED <<offViewerVars, viewerVars, requests, loading, error, route>>

viewNextPage ==
  /\ epaperViewShown
  /\ totalPagesOfEpaper > 1
  /\ currentPage # totalPagesOfEpaper - 1
  /\ currentPage' = Min(totalPagesOfEpaper - 1, currentPage + 1)
  /\ UNCHANGED <<offViewerVars, viewerVars, requests, loading, error, route>>

\* The page dots of the navigation bar and the thumbnails.
viewJumpTo(idx) ==
  /\ epaperViewShown
  /\ idx \in 0..(totalPagesOfEpaper - 1)
  /\ currentPage' = idx
  /\ UNCHANGED <<offViewerVars, viewerVars, requests, loading, error, route>>

\* The page image is rendered only when images[currentPage] exists.
viewImageRendered ==
  epaperViewShown /\ currentPage \in 0..(totalPagesOfEpaper - 1)

\* Specification of the admin viewer: the state right after it mounted on
\* some id.
InitEpaperView ==
  /\ InitIdleList
  /\ InitIdleReorder
  /\ currentUser = NoUser
  /\ InitIdleForm
  /\ InitIdleAuth
  /\ error = NoError
  /\ currentPage = 0
  /\ selectedDate = 0
  /\ navAttempted = FALSE
  /\ navigations = 0
  /\ route = "/epapers/view"
  /\ mounted = 1
  /\ paramId \in Dates
  /\ epaper = NoEpaper
  /\ loading = TRUE
  /\ requests = <<ViewerRequest("byId", paramId, FALSE)>>

NextEpaperView ==
  \/ \E i \in 1..MaxInFlight : ServerAnswerViewer(i)
  \/ \E i \in 1..MaxInFlight : ServerRejectViewer(i)
  \/ \E i \in 1..MaxInFlight : ResolveById(i)
  \/ \E newId \in Dates : changeParamId(newId)
  \/ viewPreviousPage
  \/ viewNextPage
  \/ \E idx \in 0..(MaxPages - 1) : viewJumpTo(idx)

SpecEpaperView == InitEpaperView /\ [][NextEpaperView]_vars

----------------------------------------------------------------------------
\* The page-reorder workflow: move / commit / cancel over the pages of one
\* edition, and reorderEpaperImages of epaper.api.
MaxItems == 3         \* pages of the edition being reordered

PageItem(itemId, position) == [id |-> itemId, pageNumber |-> position]

\* The sequence as hydrated from the backend's order.
itemsOf(ids) == [k \in 1..Len(ids) |-> PageItem(ids[k], k)]

idsOf(items) == [k \in 1..Len(items) |-> items[k].id]

renumber(items) ==
  [k \in 1..Len(items) |-> [items[k] EXCEPT !.pageNumber = k]]

removeItem(items, itemId) == SelectSeq(items, LAMBDA x : x.id # itemId)

insertAt(items, position, item) ==
  SubSeq(items, 1, position - 1) \o <<item>>
    \o SubSeq(items, position, Len(items))

itemWithId(items, itemId) ==
  items[CHOOSE k \in 1..Len(items) : items[k].id = itemId]

moveItemKeepNumbers(items, itemId, toPosition) ==
  insertAt(removeItem(items, itemId), toPosition, itemWithId(items, itemId))

moveItem(items, itemId, toPosition) ==
  renumber(insertAt(removeItem(items, itemId), toPosition,
                    itemWithId(items, itemId)))

\* What no reorder action touches.
offReorderVars == <<data, currentPage, lastRequest, hookVars, backend,
                    loading, route, toast, deletes, loadedTotal,
                    loadsDispatched, shownLoad, viewerVars, currentUser,
                    formVars, authVars>>

move(itemId, toPosition) ==
  /\ \E k \in 1..Len(order) : order[k].id = itemId
  /\ toPosition \in 1..Len(order)
  /\ order' = moveItem(order, itemId, toPosition)
  /\ UNCHANGED <<offReorderVars, baseline, canonical, requests, error>>

\* reorderEpaperImages(id, imageOrder): the PATCH it sends.
reorderEpaperImages(epaperId, imageOrder) ==
  [kind |-> "reorder", id |-> epaperId, imageOrder |-> imageOrder,
   state |-> "sent", status |-> 0, message |-> ""]

\* commit(): one commit at a time.
commit ==
  /\ Len(order) > 0
  /\ requests = <<>>
  /\ requests' = <<reorderEpaperImages(1, idsOf(order))>>
  /\ error' = NoError
  /\ UNCHANGED <<offReorderVars, reorderVars>>

\* The backend stores the order it was sent.
ServerAnswerReorder(i) ==
  /\ i \in 1..Len(requests)
  /\ requests[i].kind = "reorder"
  /\ requests[i].state = "sent"
  /\ canonical' = requests[i].imageOrder
  /\ requests' =
       [requests EXCEPT ![i] = [@ EXCEPT !.state = "ok", !.status = 200]]
  /\ UNCHANGED <<offReorderVars, order, baseline, error>>

\* The backend rejects the PATCH.
ServerRejectReorder(i, e) ==
  /\ i \in 1..Len(requests)
  /\ requests[i].kind = "reorder"
  /\ requests[i].state = "sent"
  /\ requests' =
       [requests EXCEPT ![i] =
          [@ EXCEPT !.state = "err", !.status = e.status,
                    !.message = e.message]]
  /\ UNCHANGED <<offReorderVars, reorderVars, error>>

\* The in-memory order after a commit has failed.
orderRolledBack(current, restorable) == restorable

orderAfterFailedCommit(current, restorable) == current

\* commit() after reorderEpaperImages has settled: it returns, or throws
\* new Error(extractErrorMessage(err)).
ResolveCommit(i) ==
  /\ i \in 1..Len(requests)
  /\ requests[i].kind = "reorder"
  /\ requests[i].state # "sent"
  /\ requests' = RemoveAt(requests, i)
  /\ IF requests[i].state = "ok"
     THEN /\ baseline' = itemsOf(requests[i].imageOrder)
          /\ UNCHANGED <<order, error>>
     ELSE /\ order' = orderAfterFailedCommit(order, baseline)
          /\ error' = extractErrorMessage(requests[i])
          /\ UNCHANGED baseline
  /\ UNCHANGED <<offReorderVars, canonical>>

\* cancel(): the in-memory order is discarded; nothing is sent.
cancel ==
  /\ order' = baseline
  /\ UNCHANGED <<offReorderVars, baseline, canonical, requests, error>>

\* Specification of the reorder workflow on an edition of up to MaxItems
\* pages, as loaded.
InitReorder ==
  /\ InitIdleList
  /\ InitIdleViewer
  /\ currentUser = NoUser
  /\ InitIdleForm
  /\ InitIdleAuth
  /\ currentPage = 0
  /\ loading = FALSE
  /\ error = NoError
  /\ route = "/epapers/edit"
  /\ requests = <<>>
  /\ \E n \in 0..MaxItems :
       /\ canonical = [k \in 1..n |-> k]
       /\ baseline = itemsOf(canonical)
       /\ order = baseline

NextReorder ==
  \/ \E itemId \in 1..MaxItems, toPosition \in 1..MaxItems :
       move(itemId, toPosition)
  \/ commit
  \/ \E i \in 1..MaxInFlight : ServerAnswerReorder(i)
  \/ \E i \in 1..MaxInFlight, e \in ErrorResponses : ServerRejectReorder(i, e)
  \/ \E i \in 1..MaxInFlight : ResolveCommit(i)
  \/ cancel

SpecReorder == InitReorder /\ [][NextReorder]_vars

----------------------------------------------------------------------------
\* UserList: the rows and the edit permission of each row.
MaxUsers == 12        \* users the list holds

userRole(i) ==
  CASE i % 4 = 1 -> "SuperAdmin"
    [] i % 4 = 2 -> "Admin"
    [] OTHER -> "Staff"

roleChars(role) ==
  CASE role = "SuperAdmin" ->
         <<"S", "u", "p", "e", "r", "A", "d", "m", "i", "n">>
    [] role = "Admin" -> <<"A", "d", "m", "i", "n">>
    [] OTHER -> <<"S", "t", "a", "f", "f">>

\* A row of enrichedUsers.
UserRow(i) ==
  [id |-> i,
   role |-> userRole(i),
   searchableName |-> StringValue(toLowerCase(ItemName(i))),
   searchableRole |-> StringValue(toLowerCase(roleChars(userRole(i))))]

UserQueries == { <<>>, <<"a">>, <<"s", "t">> }

\* Whoever is signed in: nobody, or one of the users.
Actors == { NoUser } \cup { [id |-> i, role |-> userRole(i)] : i \in 1..MaxUsers }

canEditUserAdminAll(targetUser) ==
  IF currentUser.role = "SuperAdmin" THEN TRUE
  ELSE IF currentUser.role = "Admin" THEN TRUE
  ELSE currentUser.id = targetUser.id

canEditUser(targetUser) ==
  IF currentUser.role = "SuperAdmin" THEN TRUE
  ELSE IF currentUser.role = "Admin" THEN targetUser.role # "SuperAdmin"
  ELSE currentUser.id = targetUser.id

\* The edit button of a visible row acts only when canEdit holds.
handleEdit(userId) ==
  /\ tableShown
  /\ \E k \in 1..Len(currentItems) :
       /\ currentItems[k].id = userId
       /\ canEditUser(currentItems[k])
  /\ route' = "/admin-dashboard/users/edit"
  /\ UNCHANGED <<data, currentPage, lastRequest, hookVars, screenVars,
                 backend, requests, loading, error, toast, deletes,
                 loadedTotal, loadsDispatched, shownLoad>>

\* Specification of the user list, loaded, with some actor signed in.
InitUsers ==
  /\ InitHooks
  /\ InitIdleLoader
  /\ InitIdleViewer
  /\ InitIdleReorder
  /\ InitIdleForm
  /\ InitIdleAuth
  /\ data = [i \in 1..MaxUsers |-> UserRow(i)]
  /\ searchFields = {"searchableName", "searchableRole"}
  /\ itemsPerPage = screenItemsPerPage
  /\ currentUser \in Actors

NextUsers ==
  \/ \E q \in UserQueries : setSearchQuery(q)
  \/ Elapse(debounceDelay)
  \/ TimerFire
  \/ \E page \in PageTargets : handlePageChange(page)
  \/ \E userId \in 1..MaxUsers : handleEdit(userId)

SpecUsers == InitUsers /\ [][NextUsers]_vars

----------------------------------------------------------------------------
\* UserRegister: the user form, its validation and its submit handler.
minPasswordLength == 6

Repeat(c, n) == [k \in 1..n |-> c]

\* The values typed into the fields.
FormFields == {"fullName", "email", "userName", "password", "passwordConfirm"}

FieldInputs(name) ==
  CASE name = "fullName" -> { <<" ">>, <<"A", "b">> }
    [] name = "email" ->
         { <<>>, <<"a", "@", "b">>, <<" ", "a", "@", "b", ".", "c", " ">> }
    [] name = "userName" -> { <<>>, <<"u">> }
    [] OTHER ->
         { <<>>, Repeat("p", minPasswordLength - 1),
           Repeat("p", minPasswordLength), Repeat("q", minPasswordLength) }

\* /^[^\s@]+@[^\s@]+\.[^\s@]+$/.test(s)
emailShape(s) ==
  \E at \in 2..(Len(s) - 3) :
    /\ s[at] = "@"
    /\ \A k \in 1..Len(s) : k # at => s[k] \notin {" ", "@"}
    /\ \E dot \in (at + 2)..(Len(s) - 1) : s[dot] = "."

\* validate(): the errors object, as its entries in insertion order.
validate(u, editing) ==
  LET entry(field, message) == << <<field, message>> >>
      fullNameError ==
        IF trim(u.fullName) = <<>>
        THEN entry("fullName", "Full name is required") ELSE <<>>
      emailError ==
        IF trim(u.email) = <<>> THEN entry("email", "Email is required")
        ELSE IF ~emailShape(trim(u.email))
             THEN entry("email", "Email is invalid")
        ELSE <<>>
      userNameError ==
        IF ~editing /\ trim(u.userName) = <<>>
        THEN entry("userName", "Username is required") ELSE <<>>
      tooShort ==
        entry("password", "Password must be at least 6 characters")
      mismatch == entry("passwordConfirm", "Passwords do not match")
      passwordError ==
        IF ~editing
        THEN IF u.password = <<>>
             THEN entry("password", "Password is required")
             ELSE IF Len(u.password) < minPasswordLength THEN tooShort
             ELSE <<>>
        ELSE IF u.password # <<>> /\ Len(u.password) < minPasswordLength
             THEN tooShort
        ELSE <<>>
      confirmError ==
        IF ~editing
        THEN IF u.passwordConfirm = <<>>
             THEN entry("passwordConfirm", "Confirm password is required")
             ELSE IF u.password # u.passwordConfirm THEN mismatch
             ELSE <<>>
        ELSE IF u.password = <<>> THEN <<>>
        ELSE IF u.passwordConfirm = <<>>
             THEN entry("passwordConfirm", "Please confirm your password")
        ELSE IF u.password # u.passwordConfirm THEN mismatch
        ELSE <<>>
  IN fullNameError \o emailError \o userNameError \o passwordError
       \o confirmError

\* Object.keys(validationErrors).length > 0
submissionBlockedByMany(validationErrors) == Len(validationErrors) > 1

submissionBlocked(validationErrors) == Len(validationErrors) > 0

\* showToast: every call shows a new toast.
NoFormToast == [variant |-> "none", title |-> "", message |-> <<>>, id |-> 0]

showToast(variant, title, message) ==
  [variant |-> variant, title |-> title, message |-> message,
   id |-> 1 - toast.id]

formRoute == "/admin-dashboard/users/form"

\* What no form action touches.
offFormVars == <<data, currentPage, lastRequest, hookVars, backend, error,
                 deletes, loadedTotal, loadsDispatched, shownLoad,
                 viewerVars, reorderVars, currentUser, authVars>>

handleChange(name, value) ==
  /\ route = formRoute
  /\ ~loading
  /\ IF isEditing /\ name = "userName"
     THEN UNCHANGED <<user, errors>>
     ELSE /\ user' = [user EXCEPT ![name] = value]
          /\ errors' = { e \in errors : e[1] # name }
  /\ UNCHANGED <<offFormVars, isEditing, requests, loading, route, toast>>

\* The submit button's disabled attribute.
submitDisabledNever == FALSE

submitDisabled == loading

\* handleSubmit up to its await.
handleSubmit ==
  /\ route = formRoute
  /\ ~submitDisabled
  /\ LET validationErrors == validate(user, isEditing) IN
     IF submissionBlocked(validationErrors)
     THEN /\ errors' = { validationErrors[k] : k \in 1..Len(validationErrors) }
          /\ toast' = showToast("error", "Validation Error",
                                [k \in 1..Len(validationErrors) |->
                                   validationErrors[k][2]])
          /\ UNCHANGED <<loading, requests>>
     ELSE /\ loading' = TRUE
          /\ requests' =
               Append(requests,
                      [kind |-> IF isEditing THEN "PUT" ELSE "POST",
                       payload |-> [fullName |-> trim(user.fullName),
                                    email |-> trim(user.email)],
                       state |-> "sent", status |-> 0, message |-> ""])
          /\ UNCHANGED <<errors, toast>>
  /\ UNCHANGED <<offFormVars, user, isEditing, route>>

FormErrorResponses ==
  { [status |-> 409, message |-> "Username already exists"],
    [status |-> 409, message |-> "Email already exists"],
    [status |-> 500, message |-> ""] }

ServerAnswerSubmit(i) ==
  /\ i \in 1..Len(requests)
  /\ requests[i].state = "sent"
  /\ requests' =
       [requests EXCEPT ![i] = [@ EXCEPT !.state = "ok", !.status = 200]]
  /\ UNCHANGED <<offFormVars, formVars, loading, route, toast>>

ServerRejectSubmit(i, e) ==
  /\ i \in 1..Len(requests)
  /\ requests[i].state = "sent"
  /\ requests' =
       [requests EXCEPT ![i] =
          [@ EXCEPT !.state = "err", !.status = e.status,
                    !.message = e.message]]
  /\ UNCHANGED <<offFormVars, formVars, loading, route, toast>>

\* The message of handleSubmit's catch for an axios error.
submitErrorMessage(response) ==
  IF response.message = "" THEN "Something went wrong"
  ELSE IF response.message = "Username already exists"
       THEN "This username is already taken. Please choose another."
  ELSE IF response.message = "Email already exists"
       THEN "This email is already registered."
  ELSE response.message

\* handleSubmit after its await has settled.
ResolveSubmit(i) ==
  /\ i \in 1..Len(requests)
  /\ requests[i].kind \in {"PUT", "POST"}
  /\ requests[i].state # "sent"
  /\ requests' = RemoveAt(requests, i)
  /\ IF requests[i].state = "ok"
     THEN /\ toast' = IF requests[i].kind = "PUT"
                      THEN showToast("success", "Updated",
                                     <<"User updated successfully.">>)
                      ELSE showToast("success", "Created",
                                     <<"User created successfully.">>)
          /\ route' = "/admin-dashboard/users"
     ELSE /\ toast' = showToast("error", "Error",
                                <<submitErrorMessage(requests[i])>>)
          /\ UNCHANGED route
  /\ loading' = FALSE
  /\ UNCHANGED <<offFormVars, formVars>>

\* Specification of the user form: the empty form of "create", or the form
\* of "edit" filled with the user it loaded.
LoadedUser ==
  [fullName |-> <<"A", "b">>,
   email |-> <<" ", "a", "@", "b", ".", "c", " ">>,
   userName |-> <<"u">>, password |-> <<>>, passwordConfirm |-> <<>>]

InitForm ==
  /\ data = <<>>
  /\ searchFields = {}
  /\ itemsPerPage = screenItemsPerPage
  /\ searchQuery = <<>>
  /\ debouncedQuery = <<>>
  /\ timer = NoTimer
  /\ sinceEdit = 0
  /\ filterRan = FALSE
  /\ lastRequest = -1
  /\ backend = <<>>
  /\ deletes = 0
  /\ loadedTotal = -1
  /\ loadsDispatched = 0
  /\ shownLoad = 0
  /\ InitIdleViewer
  /\ InitIdleReorder
  /\ currentUser = NoUser
  /\ InitIdleAuth
  /\ currentPage = 0
  /\ error = NoError
  /\ toast = NoFormToast
  /\ route = formRoute
  /\ requests = <<>>
  /\ loading = FALSE
  /\ errors = {}
  /\ isEditing \in BOOLEAN
  /\ user = IF isEditing THEN LoadedUser ELSE EmptyForm

NextForm ==
  \/ \E name \in FormFields : \E value \in FieldInputs(name) :
       handleChange(name, value)
  \/ handleSubmit
  \/ \E i \in 1..MaxInFlight : ServerAnswerSubmit(i)
  \/ \E i \in 1..MaxInFlight, e \in FormErrorResponses :
       ServerRejectSubmit(i, e)
  \/ \E i \in 1..MaxInFlight : ResolveSubmit(i)

SpecForm == InitForm /\ [][NextForm]_vars

----------------------------------------------------------------------------
\* UserRegister in edit mode: the effect that loads the user, and its
\* cleanup. `cancelled` is true once the component is no longer mounted.
cancelled == mounted # 1

getUserById ==
  [kind |-> "GET", payload |-> EmptyForm, state |-> "sent", status |-> 0,
   message |-> ""]

\* The effect's async function after its await has settled.
ResolveUserLoad(i) ==
  /\ i \in 1..Len(requests)
  /\ requests[i].kind = "GET"
  /\ requests[i].state # "sent"
  /\ requests' = RemoveAt(requests, i)
  /\ IF requests[i].state = "ok"
     THEN /\ user' = IF cancelled THEN user ELSE LoadedUser
          /\ UNCHANGED toast
     ELSE /\ toast' = showToast("error", "Error", <<"Failed to load user">>)
          /\ UNCHANGED user
  /\ UNCHANGED <<offFormVars, isEditing, errors, loading, route, selectedDate,
                 paramId, epaper, navAttempted, mounted, navigations>>

\* The user leaves the form: the component unmounts and the effect's
\* cleanup runs; the request it sent goes on without it.
LeaveForm ==
  /\ mounted = 1
  /\ route = formRoute
  /\ route' = "/admin-dashboard/users"
  /\ mounted' = 0
  /\ UNCHANGED <<data, currentPage, lastRequest, hookVars, backend, error,
                 deletes, loadedTotal, loadsDispatched, shownLoad,
                 reorderVars, currentUser, authVars, formVars, requests,
                 loading, toast, selectedDate, paramId, epaper, navAttempted,
                 navigations>>

\* Specification of the edit form while it loads its user: the state right
\* after the mount effect has called getUserById.
InitFormLoad ==
  /\ data = <<>>
  /\ searchFields = {}
  /\ itemsPerPage = screenItemsPerPage
  /\ searchQuery = <<>>
  /\ debouncedQuery = <<>>
  /\ timer = NoTimer
  /\ sinceEdit = 0
  /\ filterRan = FALSE
  /\ lastRequest = -1
  /\ backend = <<>>
  /\ deletes = 0
  /\ loadedTotal = -1
  /\ loadsDispatched = 0
  /\ shownLoad = 0
  /\ toast = NoFormToast
  /\ InitIdleReorder
  /\ currentUser = NoUser
  /\ InitIdleAuth
  /\ selectedDate = 0
  /\ paramId = 0
  /\ epaper = NoEpaper
  /\ navAttempted = FALSE
  /\ navigations = 0
  /\ mounted = 1
  /\ currentPage = 0
  /\ error = NoError
  /\ route = formRoute
  /\ requests = <<getUserById>>
  /\ loading = FALSE
  /\ errors = {}
  /\ isEditing = TRUE
  /\ user = EmptyForm

NextFormLoad ==
  \/ \E name \in FormFields : \E value \in FieldInputs(name) :
       handleChange(name, value)
  \/ \E i \in 1..MaxInFlight : ServerAnswerSubmit(i)
  \/ \E i \in 1..MaxInFlight, e \in FormErrorResponses :
       ServerRejectSubmit(i, e)
  \/ \E i \in 1..MaxInFlight : ResolveUserLoad(i)
  \/ LeaveForm

SpecFormLoad == InitFormLoad /\ [][NextFormLoad]_vars

----------------------------------------------------------------------------
\* auth.api: the token session.
Tokens == {"t1", "t2"}

\* A string | null argument: null, the empty string, or a token.
TokenInputs == {NoToken, ""} \cup Tokens

\* if (token): null and the empty string are falsy.
truthy(token) == token # NoToken /\ token # ""

getToken == storedToken

\* What no auth action touches.
offAuthVars == <<data, currentPage, lastRequest, hookVars, backend, loading,
                 error, route, toast, deletes, loadedTotal, loadsDispatched,
                 shownLoad, viewerVars, reorderVars, currentUser, formVars>>

\* The body of setToken.
storeToken(token) ==
  IF truthy(token)
  THEN storedToken' = token /\ authHeader' = token
  ELSE storedToken' = NoToken /\ authHeader' = NoToken

setToken(token) ==
  /\ storeToken(token)
  /\ lastTokenCall' = TokenCall("setToken", token)
  /\ UNCHANGED <<offAuthVars, requests>>

clearToken ==
  /\ storeToken(NoToken)
  /\ lastTokenCall' = TokenCall("clearToken", NoToken)
  /\ UNCHANGED <<offAuthVars, requests>>

logout ==
  /\ storeToken(NoToken)
  /\ lastTokenCall' = TokenCall("logout", NoToken)
  /\ UNCHANGED <<offAuthVars, requests>>

\* login up to its await.
login ==
  /\ Len(requests) < MaxInFlight
  /\ requests' = Append(requests, [kind |-> "login", state |-> "sent",
                                    token |-> NoToken])
  /\ UNCHANGED <<offAuthVars, authVars>>

\* The backend accepts the credentials; token is optional in its answer.
ServerAnswerLogin(i, token) ==
  /\ i \in 1..Len(requests)
  /\ requests[i].state = "sent"
  /\ requests' =
       [requests EXCEPT ![i] = [@ EXCEPT !.state = "ok", !.token = token]]
  /\ UNCHANGED <<offAuthVars, authVars>>

ServerRejectLogin(i) ==
  /\ i \in 1..Len(requests)
  /\ requests[i].state = "sent"
  /\ requests' = [requests EXCEPT ![i] = [@ EXCEPT !.state = "err"]]
  /\ UNCHANGED <<offAuthVars, authVars>>

\* if (token) setToken(token)
loginStoresClearing(succeeded, token) == succeeded

loginStores(succeeded, token) == succeeded /\ truthy(token)

\* login after its await has settled: it stores the token of the answer, or
\* throws.
ResolveLogin(i) ==
  /\ i \in 1..Len(requests)
  /\ requests[i].kind = "login"
  /\ requests[i].state # "sent"
  /\ requests' = RemoveAt(requests, i)
  /\ IF loginStores(requests[i].state = "ok", requests[i].token)
     THEN /\ storeToken(requests[i].token)
          /\ lastTokenCall' =
               IF truthy(requests[i].token)
               THEN TokenCall("login", requests[i].token)
               ELSE lastTokenCall
     ELSE UNCHANGED authVars
  /\ UNCHANGED offAuthVars

\* Specification of the token session: the app starts with the token the
\* previous session left in storage, or with none.
InitAuth ==
  /\ InitIdleList
  /\ InitIdleViewer
  /\ InitIdleReorder
  /\ currentUser = NoUser
  /\ InitIdleForm
  /\ currentPage = 0
  /\ loading = FALSE
  /\ error = NoError
  /\ route = "/signin"
  /\ requests = <<>>
  /\ storedToken \in {NoToken} \cup Tokens
  /\ authHeader = storedToken
  /\ lastTokenCall = TokenCall("start", storedToken)

NextAuth ==
  \/ \E token \in TokenInputs : setToken(token)
  \/ clearToken
  \/ logout
  \/ login
  \/ \E i \in 1..MaxInFlight, token \in TokenInputs :
       ServerAnswerLogin(i, token)
  \/ \E i \in 1..MaxInFlight : ServerRejectLogin(i)
  \/ \E i \in 1..MaxInFlight : ResolveLogin(i)

SpecAuth == InitAuth /\ [][NextAuth]_vars

----------------------------------------------------------------------------
\* Properties.

RangeOf(seq) == { seq[i] : i \in 1..Len(seq) }

\* q has a character that is not a blank.
NonBlank(q) == \E k \in 1..Len(q) : q[k] # " "

\* item has a string field among searchFields whose lowercase value contains
\* the lowercase q at some offset.
HasMatchingField(item, q) ==
  \E f \in searchFields :
    /\ item[f].type = "string"
    /\ LET s == item[f].str IN
       \E off \in 0..Len(s) :
         /\ off + Len(q) <= Len(s)
         /\ \A k \in 1..Len(q) :
              toLowerCaseChar(s[off + k]) = toLowerCaseChar(q[k])

ExactlyTheMatches ==
  /\ \A k \in 1..Len(searchedItems) :
       HasMatchingField(searchedItems[k], debouncedQuery)
  /\ \A i \in 1..Len(data) :
       (data[i] \notin RangeOf(searchedItems))
         => ~HasMatchingField(data[i], debouncedQuery)
  /\ Len(searchedItems) =
       Cardinality({ i \in 1..Len(data) :
                       HasMatchingField(data[i], debouncedQuery) })

\* C1 as stated: for every applied query, blank ones included, the filtered
\* list holds exactly the records with a matching string field.
C1_AllQueries == ExactlyTheMatches

\* C1 (amended): for every applied query that is neither empty nor
\* whitespace-only, the filtered list holds exactly the records that have a
\* string field among searchFields whose lowercase value contains the
\* lowercase query; non-string values never match.
C1_FilterExact == NonBlank(debouncedQuery) => ExactlyTheMatches

\* A numeric field is searched, one record is kept and one is dropped.
C1_Witness ==
  /\ debouncedQuery = <<"1">>
  /\ "totalPages" \in searchFields
  /\ Len(searchedItems) > 0
  /\ Len(searchedItems) < Len(data)

\* C2: an empty or whitespace-only applied query returns the list itself.
C2_BlankReturnsAll == ~NonBlank(debouncedQuery) => searchedItems = data

C2_Witness ==
  /\ debouncedQuery = <<" ">>
  /\ Len(data) >= 2
  /\ searchFields # {}

\* C3: an edit shows in the visible query at once, leaves the filtering query
\* alone and restarts the quiet period; the filtering query changes only
\* after a full quiet period without edits, to the latest visible query, and
\* with no timer pending the two queries agree.
C3_Debounce ==
  [][ /\ (searchQuery' # searchQuery) =>
           /\ debouncedQuery' = debouncedQuery
           /\ sinceEdit' = 0
           /\ timer'.due = debounceDelay
      /\ (debouncedQuery' # debouncedQuery) =>
           /\ sinceEdit >= debounceDelay
           /\ debouncedQuery' = searchQuery
           /\ searchQuery' = searchQuery
      /\ (timer' = NoTimer) => debouncedQuery' = searchQuery' ]_vars

\* The quiet period ran out after edits and the last query is applied.
C3_Witness ==
  /\ debouncedQuery = <<"A", "b">>
  /\ searchQuery = debouncedQuery
  /\ timer = NoTimer
  /\ sinceEdit = debounceDelay

\* ceil(n / p), stated by its defining property.
CeilOf(n, p) == CHOOSE t \in 0..n : t * p >= n /\ (t = 0 \/ (t - 1) * p < n)

\* C4: the page window 1 <= currentPage <= max(1, totalPages) holds in every
\* reachable state of the list screen.
C4_PageWindow ==
  /\ 1 <= currentPage
  /\ currentPage <= Max(1, CeilOf(Len(searchedItems), itemsPerPage))

\* The list shrank below the page last asked for and the page followed.
C4_Witness ==
  /\ lastRequest > totalPages
  /\ currentPage = totalPages
  /\ totalPages >= 2

\* C5: totalPages = max(1, ceil(N/P)) and every page in range shows exactly
\* the elements at indices [(page-1)*P, min(N, page*P)).
C5_PageSlices ==
  LET N == Len(searchedItems)
      P == itemsPerPage
  IN /\ totalPages = Max(1, CeilOf(N, P))
     /\ \A page \in 1..totalPages :
          LET items == currentItemsOf(searchedItems, P, page) IN
          /\ Len(items) = Min(P, N - (page - 1) * P)
          /\ (N = 0) => Len(items) = 0
          /\ \A k \in 1..Len(items) :
               items[k] = searchedItems[(page - 1) * P + k]

\* A last page that is only partly filled.
C5_Witness ==
  /\ Len(searchedItems) = 12
  /\ itemsPerPage = screenItemsPerPage
  /\ currentPage = 2
  /\ Len(currentItems) = 2

\* C6: when the filtered list changes, the page becomes
\* min(previous page, max(1, new totalPages)).
C6_ClampOnChange ==
  [][ (searchedItems' # searchedItems) =>
        currentPage' =
          Min(currentPage,
              Max(1, CeilOf(Len(searchedItems'), itemsPerPage))) ]_vars

\* Page 5 was asked for and shown, the list shrank to two pages.
C6_Witness ==
  /\ lastRequest = 5
  /\ currentPage = 2
  /\ totalPages = 2

\* C7: a change-page request with a target outside [1, totalPages] leaves
\* the page and all other list state as they were.
C7_OutOfRangeNoOp ==
  [][ \A page \in PageTargets :
        (handlePageChange(page) /\ (page < 1 \/ page > totalPages)) =>
          UNCHANGED <<data, currentPage, hookVars, loaderVars, screenVars>> ]_vars

\* Next was pressed on the last of several pages.
C7_Witness ==
  /\ lastRequest = totalPages + 1
  /\ currentPage = totalPages
  /\ totalPages >= 2
  /\ paginationShown

\* C8: the summary is rendered exactly when Z > 0, with
\* X = min((page-1)*P + 1, Z) and Y = min(page*P, Z); X..Y are the positions
\* of the visible items.
C8_Summary ==
  LET Z == Len(searchedItems)
      P == itemsPerPage
      s == summary(currentPage, P, Z)
      X == IF (currentPage - 1) * P + 1 <= Z
           THEN (currentPage - 1) * P + 1 ELSE Z
      Y == IF currentPage * P <= Z THEN currentPage * P ELSE Z
  IN /\ (s = NoSummary) <=> (Z = 0)
     /\ (Z > 0) => /\ s = <<X, Y, Z>>
                   /\ Y - X + 1 = Len(currentItems)
     /\ (Z = 12 /\ P = 10 /\ currentPage = 2) => s = <<11, 12, 12>>

C8_Witness ==
  /\ Len(searchedItems) = 12
  /\ itemsPerPage = 10
  /\ currentPage = 2
  /\ summary(currentPage, itemsPerPage, 12) = <<11, 12, 12>>

\* C9: the page-number strip always holds page 1 and the last page, and for
\* up to five pages it is exactly 1..totalPages without an ellipsis.
C9_FirstAndLast ==
  LET pages == getPageNumbers(currentPage, totalPages) IN
  /\ 1 \in RangeOf(pages)
  /\ totalPages \in RangeOf(pages)
  /\ (totalPages <= 5) =>
       /\ Len(pages) = totalPages
       /\ \A i \in 1..totalPages : pages[i] = i

\* The middle window: both ellipses are present.
C9_Witness ==
  /\ totalPages >= 7
  /\ currentPage = 4
  /\ Len(getPageNumbers(currentPage, totalPages)) = 7

\* A search or page-change step of the list screen.
SearchOrPageStep ==
  \/ \E q \in ListQueries : setSearchQuery(q)
  \/ TimerFire
  \/ \E page \in PageTargets : handlePageChange(page)

\* C10: once a load has been applied, the in-memory list holds every record
\* the backend reported having (so 12 editions give a second page of 2), and
\* search and page changes send no request.
C10_LoadsAllRecords ==
  [][ /\ (loadedTotal' # -1) => Len(data') = loadedTotal'
      /\ (loadedTotal' = 12 /\ debouncedQuery' = <<>>) =>
           Len(currentItemsOf(data', itemsPerPage', 2)) = 2
      /\ SearchOrPageStep => requests' = requests ]_vars

\* C11: a load dispatched later wins: the visible list is never replaced by
\* the result of a loadEpapers call dispatched before the call whose result
\* it shows.
C11_LaterLoadWins == [][shownLoad' >= shownLoad]_vars

\* A step in which loadEpapers resumes from a request rejected with `status`.
LoadRejectedWith(status) ==
  \E i \in 1..Len(requests) :
    /\ requests[i].kind = "load"
    /\ requests[i].state = "err"
    /\ requests[i].status = status
    /\ requests' = RemoveAt(requests, i)

\* C17: a list load answered with 401 redirects to the sign-in route; a list
\* load answered with 403 shows the permission-denied message and does not
\* redirect.
C17_StatusHandling ==
  [][ /\ LoadRejectedWith(401) => route' = "/signin"
      /\ LoadRejectedWith(403) =>
            /\ error' = "You don't have permission to view ePapers."
            /\ route' = route ]_vars

\* A step in which loadEpaper resumes from a failed by-date request.
ByDateFailureResolves ==
  \E i \in 1..Len(requests) :
    /\ requests[i].kind = "byDate"
    /\ requests[i].state = "err"
    /\ requests' = RemoveAt(requests, i)

\* C16: a failed by-date request redirects to the not-found route exactly
\* once: the failure's step performs one navigate("/404") and ends on that
\* route; nothing else navigates there, and no step navigates while the
\* not-found route is already showing, so there is no second navigation and
\* no loop.
C16_RedirectOnce ==
  [][ /\ (ByDateFailureResolves /\ route # "/404") =>
            /\ navigations' = navigations + 1
            /\ route' = "/404"
      /\ navigations' # navigations =>
            /\ ByDateFailureResolves
            /\ navigations' = navigations + 1
      /\ route = "/404" => navigations' = navigations ]_vars

\* The viewer's own request has failed and it has redirected once.
C16_Witness ==
  /\ mounted = 1
  /\ navAttempted
  /\ route = "/404"
  /\ navigations = 1
  /\ epaper = NoEpaper
  /\ ~loading

\* A viewer shows a loaded edition.
editionShown == ~loading /\ error = NoError /\ epaper # NoEpaper

\* C14: while a viewer shows an edition of N > 0 pages, currentPage is in
\* 0..N-1, whatever next, previous and jumpTo operations came before.
C14_PageInRange ==
  (editionShown /\ epaper.pages > 0) => currentPage \in 0..(epaper.pages - 1)

\* C15: whenever a viewer's edition is replaced by a newly loaded one, the
\* state that first shows it has currentPage = 0.
C15_ResetOnLoad ==
  [][ (epaper' # epaper /\ epaper' # NoEpaper) => currentPage' = 0 ]_vars

\* C12: in every state of the reorder workflow the in-memory order holds
\* each of the N identifiers exactly once and its position numbers are
\* exactly 1..N, in sequence order.
C12_ReorderInvariant ==
  /\ Len(order) = Len(canonical)
  /\ { order[k].id : k \in 1..Len(order) } = 1..Len(order)
  /\ \A k \in 1..Len(order) : order[k].pageNumber = k

\* Moves have taken the last page to the front.
C12_Witness ==
  /\ Len(order) = MaxItems
  /\ order # baseline
  /\ order[1].id = MaxItems

\* A step in which commit() resumes from a settled request.
CommitSettles(state) ==
  \E i \in 1..Len(requests) :
    /\ requests[i].kind = "reorder"
    /\ requests[i].state = state
    /\ requests' = RemoveAt(requests, i)

\* C13: commit sends the full current identifier sequence; on success the
\* sequence sent becomes the baseline, which is then what the backend
\* stores; on failure the in-memory order and the baseline are left as
\* they were and the error message is handed to the caller.
C13_Commit ==
  [][ /\ (requests = <<>> /\ requests' # <<>>) =>
            /\ requests'[1].imageOrder = idsOf(order)
            /\ order' = order
      /\ CommitSettles("ok") =>
            /\ \E i \in 1..Len(requests) :
                  baseline' = itemsOf(requests[i].imageOrder)
            /\ idsOf(baseline') = canonical
            /\ order' = order
      /\ CommitSettles("err") =>
            /\ order' = order
            /\ baseline' = baseline
            /\ error' # NoError ]_vars

\* A commit has failed and the reordered pages are still in memory.
C13_Witness ==
  /\ requests = <<>>
  /\ error # NoError
  /\ order # baseline
  /\ idsOf(baseline) = canonical

\* The permission as the claim states it, from the four values alone.
MayEdit(actingRole_, actingId, targetRole, targetId) ==
  CASE actingRole_ = "SuperAdmin" -> TRUE
    [] actingRole_ = "Admin" -> targetRole # "SuperAdmin"
    [] OTHER -> targetId = actingId

\* C18: for every row of the user list, under every search query and on
\* every page, canEditUser is the predicate of (acting role, acting id,
\* target role, target id): SuperAdmin edits all, Admin all but SuperAdmin
\* rows, anyone else only the row with their own id.
C18_EditPermission ==
  \A k \in 1..Len(data) :
    canEditUser(data[k]) =
      MayEdit(currentUser.role, currentUser.id, data[k].role, data[k].id)

\* An Admin looks at a searched list whose second page is showing: it
\* holds rows the Admin may edit and, on the first page, rows it may not.
C18_Witness ==
  /\ currentUser.role = "Admin"
  /\ ~isBlank(debouncedQuery)
  /\ currentPage = 2
  /\ \E k \in 1..Len(currentItems) : canEditUser(currentItems[k])
  /\ \E k \in 1..Len(data) : ~canEditUser(data[k])

\* The rules of the user form as the claim lists them, with the messages
\* the form shows for them; on update the password rules apply only to a
\* password that was typed.
BrokenRules(u, editing) ==
  LET typed == u.password # <<>>
      checked == ~editing \/ typed
  IN  { r \in { <<"fullName", "Full name is required">> } :
               trim(u.fullName) = <<>> }
      \cup { r \in { <<"email", "Email is required">> } : trim(u.email) = <<>> }
      \cup { r \in { <<"email", "Email is invalid">> } :
               /\ trim(u.email) # <<>>
               /\ ~emailShape(trim(u.email)) }
      \cup { r \in { <<"userName", "Username is required">> } :
               ~editing /\ trim(u.userName) = <<>> }
      \cup { r \in { <<"password", "Password is required">> } :
               ~editing /\ ~typed }
      \cup { r \in { <<"password", "Password must be at least 6 characters">> } :
               typed /\ Len(u.password) < 6 }
      \cup { r \in { <<"passwordConfirm", "Confirm password is required">> } :
               ~editing /\ u.passwordConfirm = <<>> }
      \cup { r \in { <<"passwordConfirm", "Please confirm your password">> } :
               editing /\ typed /\ u.passwordConfirm = <<>> }
      \cup { r \in { <<"passwordConfirm", "Passwords do not match">> } :
               /\ checked
               /\ u.passwordConfirm # <<>>
               /\ u.passwordConfirm # u.password }

\* A step of the submit handler: the form is idle and a toast is shown or
\* a request is issued.
SubmitStep == ~loading /\ (toast' # toast \/ requests' # requests)

\* C19: a submit of a form that breaks any rule issues no request, leaves
\* loading false and the form on screen, and reports every broken rule,
\* in the errors under the fields and in the toast.
C19_ValidationBlocks ==
  [][ (SubmitStep /\ BrokenRules(user, isEditing) # {}) =>
        /\ requests' = requests
        /\ loading' = FALSE
        /\ route' = route
        /\ errors' = BrokenRules(user, isEditing)
        /\ toast'.title = "Validation Error"
        /\ { toast'.message[k] : k \in 1..Len(toast'.message) } =
             { r[2] : r \in BrokenRules(user, isEditing) } ]_vars

\* A create form that broke five rules at once was submitted.
C19_Witness ==
  /\ ~isEditing
  /\ ~loading
  /\ requests = <<>>
  /\ route = formRoute
  /\ toast.title = "Validation Error"
  /\ Cardinality(errors) = 5
  /\ Len(toast.message) = 5

\* C20 as stated: getToken() is the token of the latest successful
\* token-bearing login or setToken(non-null), unless logout or clearToken
\* (setToken(null)) came after it; then it is null.
C20_LatestNonNullToken ==
  getToken =
    IF lastTokenCall.op \in {"logout", "clearToken"} THEN NoToken
    ELSE lastTokenCall.token

\* C20, amended: getToken() is the token of the latest successful login
\* that carried a non-empty token or setToken of a non-empty token, unless
\* logout, clearToken, setToken(null) or setToken("") came after it; then
\* it is null. A failed login, and a login whose answer carries no token,
\* leave it unchanged.
C20_TokenSession ==
  /\ getToken =
       IF lastTokenCall.op \in {"logout", "clearToken"} THEN NoToken
       ELSE IF truthy(lastTokenCall.token) THEN lastTokenCall.token
       ELSE NoToken
  /\ authHeader = getToken

\* A login has replaced the token of an earlier session while another
\* login, answered without a token, is still to be handled.
C20_Witness ==
  /\ lastTokenCall = TokenCall("login", "t2")
  /\ storedToken = "t2"
  /\ \E i \in 1..Len(requests) :
       requests[i].state = "ok" /\ ~truthy(requests[i].token)

\* A step in which handleDelete resumes from its settled request i.
DeleteSettles(i) ==
  /\ requests[i].kind = "delete"
  /\ requests[i].state # "sent"
  /\ Len(requests') >= Len(requests) - 1
  /\ SubSeq(requests', 1, Len(requests) - 1) = RemoveAt(requests, i)
  /\ Len(SelectSeq(requests', LAMBDA r : r.kind = "delete")) <
       Len(SelectSeq(requests, LAMBDA r : r.kind = "delete"))

\* A step in which loadEpapers applies the result of a successful request.
LoadApplies ==
  \E i \in 1..Len(requests) :
    /\ requests[i].kind = "load"
    /\ requests[i].state = "ok"
    /\ requests' = RemoveAt(requests, i)

\* C21: a successful delete sends a fresh list request and leaves the local
\* list as it is; a failed delete sends no list request and leaves the
\* list, the query and the page unchanged (a declined delete changes
\* nothing at all); the list changes only when a list request's result is
\* applied.
C21_DeleteReloads ==
  [][ /\ \A i \in 1..Len(requests) :
           DeleteSettles(i) =>
             IF requests[i].state = "ok"
             THEN /\ Len(requests') = Len(requests)
                  /\ requests'[Len(requests')] =
                       [getAllEpapers EXCEPT !.seq = loadsDispatched + 1]
                  /\ loadsDispatched' = loadsDispatched + 1
                  /\ data' = data
             ELSE /\ requests' = RemoveAt(requests, i)
                  /\ loadsDispatched' = loadsDispatched
                  /\ data' = data
                  /\ searchQuery' = searchQuery
                  /\ debouncedQuery' = debouncedQuery
                  /\ currentPage' = currentPage
      /\ data' # data => LoadApplies ]_vars

\* A delete has succeeded: the reload is in flight and the deleted row is
\* still in the local list.
C21_Witness ==
  /\ toast = "ePaper deleted successfully"
  /\ \E i \in 1..Len(requests) :
       requests[i].kind = "load" /\ requests[i].seq = 2
  /\ \E k \in 1..Len(data) :
       \A j \in 1..Len(backend) : backend[j] # data[k].id

\* C22: once a component is torn down, nothing that was pending changes its
\* state or shows anything: no state update, no toast, no navigation.
C22_NoEffectAfterTeardown ==
  [][ cancelled =>
        /\ user' = user
        /\ errors' = errors
        /\ loading' = loading
        /\ toast' = toast
        /\ route' = route ]_vars

\* C23: while a network call of the screen is pending, the screen shows its
\* loading indicator.
C23_PendingShowsLoading ==
  (\E i \in 1..Len(requests) : requests[i].state = "sent") => loading

\* C24: at most one create/update request of the form is pending at any
\* time, the form is loading exactly while that request is pending, and
\* so it can be submitted again once the request has settled.
C24_SingleSubmit ==
  /\ Len(requests) <= 1
  /\ loading <=> Len(requests) = 1
  /\ (route = formRoute /\ requests = <<>>) => ENABLED handleSubmit

\* The form is submitted again after a submit that the server rejected.
C24_Witness ==
  /\ toast.title = "Error"
  /\ loading
  /\ Len(requests) = 1
  /\ requests[1].state = "sent"

\* C25: the spinner, the "no data" panel, the "no match" panel and the
\* table are pairwise exclusive; "no data" shows only for an empty loaded
\* list, "no match" only for a non-empty list whose filtered list is
\* empty, the table only when the current page has an item.
C25_RenderStates ==
  /\ \A pair \in { <<spinnerShown, noDataShown>>,
                    <<spinnerShown, noMatchShown>>,
                    <<spinnerShown, tableShown>>,
                    <<noDataShown, noMatchShown>>,
                    <<noDataShown, tableShown>>,
                    <<noMatchShown, tableShown>> } :
       ~(pair[1] /\ pair[2])
  /\ noDataShown => (shownLoad > 0 /\ data = <<>>)
  /\ noMatchShown =>
       /\ data # <<>>
       /\ \A k \in 1..Len(data) :
            ~\E f \in searchFields : fieldMatches(data[k], f, debouncedQuery)
  /\ tableShown =>
       /\ currentPage >= 1
       /\ (currentPage - 1) * itemsPerPage <
            Len(filteredData(data, debouncedQuery, searchFields))

\* After a delete and its reload, the rows that are left do not match the
\* query: the "no match" panel is on screen.
C25_Witness ==
  /\ noMatchShown
  /\ shownLoad > 1
  /\ debouncedQuery = <<"a">>

\* The message the claim expects for a rejected call.
ServerMessageOr(response, fallback) ==
  IF response.message # "" THEN response.message ELSE fallback

\* C26: a failed call shows the server's message when the response carries
\* one and the generic fallback only when it does not, for the list load
\* as for the delete.
C26_ServerMessageShown ==
  [][ \A i \in 1..Len(requests) :
        /\ (/\ requests[i].kind = "load"
            /\ requests[i].state = "err"
            /\ requests' = RemoveAt(requests, i)) =>
              /\ error' = ServerMessageOr(requests[i], "Failed to load ePapers")
              /\ toast' = error'
        /\ (DeleteSettles(i) /\ requests[i].state = "err") =>
              toast' = ServerMessageOr(requests[i], "Failed to delete ePaper")
    ]_vars

\* C27: between two changes of the debounced query, with the record list
\* unchanged, an edit of the visible query does not run the filter again.
C27_FilterOncePerPause ==
  [][ (/\ searchQuery' # searchQuery
       /\ debouncedQuery' = debouncedQuery
       /\ data' = data) => ~filterRan' ]_vars

\* C28: in the public viewer, whenever the main image of an edition is
\* rendered, currentPage is an index into that edition's images.
C28_ViewerPageInRange ==
  imageRendered => (0 <= currentPage /\ currentPage < epaper.pages)

\* The viewer shows the last page of a long edition while the request of
\* an earlier, unmounted viewer is still pending.
C28_Witness ==
  /\ imageRendered
  /\ epaper.pages > 1
  /\ currentPage = epaper.pages - 1
  /\ requests # <<>>

\* C29: when a successful load completes and no other load is in flight,
\* error is null: the error of an earlier-failing overlapping load does not
\* survive it.
C29_SuccessClearsError ==
  [][ (/\ LoadApplies
       /\ \A k \in 1..Len(requests') : requests'[k].kind # "load") =>
        error' = NoError ]_vars

\* A page-number strip for `page` of `total` pages is well formed.
WellFormedStrip(strip, page, total) ==
  LET numbers == SelectSeq(strip, LAMBDA x : x # Ellipsis) IN
  /\ \A i \in 1..Len(numbers) : 1 <= numbers[i] /\ numbers[i] <= total
  /\ \A i \in 1..(Len(numbers) - 1) : numbers[i] < numbers[i + 1]
  /\ \E i \in 1..Len(numbers) : numbers[i] = page
  /\ \A i \in 1..Len(strip) :
       strip[i] = Ellipsis =>
         /\ 1 < i
         /\ i < Len(strip)
         /\ strip[i - 1] # Ellipsis
         /\ strip[i + 1] # Ellipsis
         /\ strip[i + 1] - strip[i - 1] >= 2

\* C30: for every page count of the list shown and every page of it, the
\* page-number strip holds distinct, increasing page numbers within
\* 1..totalPages, among them the current page, and each ellipsis stands
\* between two listed pages with at least one page left out between them.
C30_WellFormedStrip ==
  \A page \in 1..totalPages :
    WellFormedStrip(getPageNumbers(page, totalPages), page, totalPages)

\* Six pages, on page 4: the ellipsis stands for page 2 alone.
C30_Witness ==
  /\ totalPages = 6
  /\ currentPage = 4
  /\ getPageNumbers(currentPage, totalPages) = <<1, Ellipsis, 3, 4, 5, 6>>

====
